---- MODULE Spec2Model ----
(***************************************************************************)
(* A model of ObjectAllocator (src/ObjectAllocator.cpp): a fixed-size      *)
(* block allocator that carves pages into blocks                           *)
(*     [header][left pad][object storage][right pad]                       *)
(* and threads the free blocks through their own object storage.           *)
(*                                                                         *)
(* Memory is modelled flat, byte by byte: mem maps every address of every  *)
(* page obtained with new char[PageSize_] to the byte stored there.        *)
(* Pointers are stored little-endian in sizeof(void* ) bytes, nullptr is   *)
(* address 0.  MemBlockInfo records of the external header live in a       *)
(* separate heap, infos.                                                   *)
(*                                                                         *)
(* The counters of OAStats are `unsigned`: a model value v stands for the  *)
(* 32-bit pattern of v in two's complement, so -1 is 0xFFFFFFFF.           *)
(***************************************************************************)
EXTENDS Integers, Sequences, FiniteSets, TLC

(***************************************************************************)
(* Bounds of the model.                                                    *)
(***************************************************************************)
\* number of client calls (Allocate, Free, SetDebugState, overruns) in a run
MaxCalls == 4
\* largest MaxPages_ a configuration is given
MaxPagesCfg == 2

(***************************************************************************)
(* Program constants.                                                      *)
(***************************************************************************)
\* sizeof(void* ) of the 64-bit build
PtrSize == 8
\* sizeof(int), sizeof(short): the fields of the basic and extended headers
IntSize == 4
ShortSize == 2
\* the debug patterns of ObjectAllocator.h
UNALLOCATED_PATTERN == 170
ALLOCATED_PATTERN == 187
FREED_PATTERN == 204
PAD_PATTERN == 255

\* OAConfig::HBLOCK_TYPE
hbNone == "hbNone"
hbBasic == "hbBasic"
hbExtended == "hbExtended"
hbExternal == "hbExternal"

\* OAException::OA_EXCEPTION, and no exception at all
E_NONE == "E_NONE"
E_NO_MEMORY == "E_NO_MEMORY"
E_NO_PAGES == "E_NO_PAGES"
E_BAD_BOUNDARY == "E_BAD_BOUNDARY"
E_MULTIPLE_FREE == "E_MULTIPLE_FREE"
E_CORRUPTED_BLOCK == "E_CORRUPTED_BLOCK"

\* nullptr
NULL == 0
\* a pointer whose bytes do not spell an address of the model
WildPtr == -1

(***************************************************************************)
(* The address space.  Pages come from new char[PageSize_]; the k-th page  *)
(* obtained is placed at PageAddr(k, size), pages are PageGap bytes apart. *)
(* MemBlockInfo records and fallback objects are placed above the pages;   *)
(* the first record lies at an address whose low byte is 0, the second at  *)
(* one whose low byte is neither 0 nor 1.                                  *)
(***************************************************************************)
HeapBase == 16
PageGap == 8
InfoBase == 4064
InfoSize == 32
SysBase == 6000
StackAddr == 8000

PageAddr(k, size) == HeapBase + (k - 1) * (size + PageGap)

InfoAddr(i) == InfoBase + i * InfoSize

(***************************************************************************)
(* unsigned (32-bit) arithmetic on two's complement representatives.       *)
(***************************************************************************)
IntMax == 2147483647
IntMin == (-2147483647) - 1

Inc32(x) == IF x = IntMax THEN IntMin ELSE x + 1

Dec32(x) == IF x = IntMin THEN IntMax ELSE x - 1

\* a >= b on unsigned values
UGe32(a, b) ==
    IF (a >= 0) = (b >= 0) THEN a >= b ELSE a < 0

\* a + b on unsigned values
Add32(a, b) ==
    IF a >= 0 /\ b >= 0 /\ a > IntMax - b THEN (a + IntMin) + (b + IntMin)
    ELSE IF a < 0 /\ b < 0 /\ a < IntMin - b THEN (a - IntMin) + (b - IntMin)
    ELSE a + b

(***************************************************************************)
(* Bytes in memory.                                                        *)
(***************************************************************************)
Mapped(mem, a, n) == \A x \in a..(a + n - 1) : x \in DOMAIN mem

\* std::memset(a, v, n) on mapped memory
MemSet(mem, a, v, n) ==
    [x \in DOMAIN mem |-> IF x \in a..(a + n - 1) THEN v ELSE mem[x]]

RECURSIVE Pow256(_)
Pow256(i) == IF i = 0 THEN 1 ELSE 256 * Pow256(i - 1)

\* byte i of the little-endian image of v in n bytes
ByteOf(v, i) ==
    IF v = WildPtr THEN 255
    ELSE IF i >= 3 THEN 0
    ELSE (v \div Pow256(i)) % 256

\* store v little-endian in the n bytes at a
WriteLE(mem, a, v, n) ==
    [x \in DOMAIN mem |-> IF x \in a..(a + n - 1) THEN ByteOf(v, x - a) ELSE mem[x]]

\* load the pointer stored at a (all PtrSize bytes mapped)
ReadPtr(mem, a) ==
    IF \E i \in 3..(PtrSize - 1) : mem[a + i] # 0 THEN WildPtr
    ELSE mem[a] + 256 * mem[a + 1] + 65536 * mem[a + 2]

\* load the short stored at a
ReadShort(mem, a) == mem[a] + 256 * mem[a + 1]

(***************************************************************************)
(* Layout.                                                                 *)
(***************************************************************************)
\* ObjectAllocator::calculate_block_size
calculate_block_size(cfg, st) ==
    st.ObjectSize_ + cfg.PadBytes_ * 2 + cfg.HBlockInfo_.size_

\* ObjectAllocator::calculate_page_size
calculate_page_size(cfg, st) ==
    PtrSize + calculate_block_size(cfg, st) * cfg.ObjectsPerPage_

\* ObjectAllocator::create_offset
create_offset(page) == page + PtrSize

\* the object-storage address of block i (from 0) of the page at `page`
BlockAddr(cfg, st, page, i) ==
    create_offset(page) + calculate_block_size(cfg, st) * i
        + cfg.HBlockInfo_.size_ + cfg.PadBytes_

\* throw OAException(code, ...): the machine keeps its state and carries code
Throw(m, code) == [m EXCEPT !.err = code]

\* the program touched memory it does not own, or followed a wild pointer
Crash(m) == [m EXCEPT !.crashed = TRUE]

Ok(m) == m.err = E_NONE /\ ~m.crashed

(***************************************************************************)
(* The external header's MemBlockInfo heap.                                *)
(***************************************************************************)
\* the address operator new gives the next MemBlockInfo
NewInfoAddr(infos) ==
    InfoAddr(CHOOSE i \in 1..(Cardinality(DOMAIN infos) + 1) :
                 /\ InfoAddr(i) \notin DOMAIN infos
                 /\ \A j \in 1..(i - 1) : InfoAddr(j) \in DOMAIN infos)

\* new MemBlockInfo(): value-initialised
NewInfo(infos, a) ==
    [x \in DOMAIN infos \cup {a} |->
        IF x = a THEN [in_use |-> FALSE, label |-> NULL, alloc_num |-> 0]
        ELSE infos[x]]

\* delete toDelete (and its label)
DeleteInfo(infos, a) == [x \in DOMAIN infos \ {a} |-> infos[x]]

(***************************************************************************)
(* ObjectAllocator::configure_header, one operator per header type.        *)
(***************************************************************************)
HeaderLocation(m, block) ==
    block - (m.cfg.PadBytes_ + m.cfg.HBlockInfo_.size_)

\* case OAConfig::hbBasic
configure_header_basic(m, block, allocated) ==
    LET hl == HeaderLocation(m, block)
        hsz == m.cfg.HBlockInfo_.size_
        mem0 == MemSet(m.mem, hl, 0, hsz)
    IN  IF ~Mapped(m.mem, hl, hsz) THEN Crash(m)
        ELSE IF allocated
        THEN [m EXCEPT !.mem = MemSet(WriteLE(mem0, hl, m.stats.Allocations_, IntSize),
                                      hl + IntSize, 1, 1)]
        ELSE [m EXCEPT !.mem = mem0]

\* mutant: a free clears the header from the use counter on, counter included
configure_header_extended_reset(m, block, allocated, freed) ==
    LET hl == HeaderLocation(m, block)
        hsz == m.cfg.HBlockInfo_.size_
        add == m.cfg.HBlockInfo_.additional_
        headerShort == hl + add
        headerInt == headerShort + ShortSize
        headerFlag == headerInt + IntSize
    IN  IF ~Mapped(m.mem, hl, hsz) THEN Crash(m)
        ELSE IF ~allocated /\ ~freed
        THEN [m EXCEPT !.mem = MemSet(m.mem, hl, 0, hsz)]
        ELSE IF allocated
        THEN LET mem0 == MemSet(m.mem, hl, 0, add)
                 mem1 == WriteLE(mem0, headerShort,
                                 (ReadShort(mem0, headerShort) + 1) % 65536, ShortSize)
                 mem2 == WriteLE(mem1, headerInt, m.stats.Allocations_, IntSize)
             IN  [m EXCEPT !.mem = MemSet(mem2, headerFlag, 1, 1)]
        ELSE [m EXCEPT !.mem = MemSet(m.mem, hl + add, 0, ShortSize + IntSize + 1)]

\* case OAConfig::hbExtended
configure_header_extended(m, block, allocated, freed) ==
    LET hl == HeaderLocation(m, block)
        hsz == m.cfg.HBlockInfo_.size_
        add == m.cfg.HBlockInfo_.additional_
        headerShort == hl + add
        headerInt == headerShort + ShortSize
        headerFlag == headerInt + IntSize
    IN  IF ~Mapped(m.mem, hl, hsz) THEN Crash(m)
        ELSE IF ~allocated /\ ~freed
        THEN [m EXCEPT !.mem = MemSet(m.mem, hl, 0, hsz)]
        ELSE IF allocated
        THEN LET mem0 == MemSet(m.mem, hl, 0, add)
                 mem1 == WriteLE(mem0, headerShort,
                                 (ReadShort(mem0, headerShort) + 1) % 65536, ShortSize)
                 mem2 == WriteLE(mem1, headerInt, m.stats.Allocations_, IntSize)
             IN  [m EXCEPT !.mem = MemSet(mem2, headerFlag, 1, 1)]
        ELSE [m EXCEPT !.mem = MemSet(m.mem, hl + add + ShortSize, 0, IntSize + 1)]

\* case OAConfig::hbExternal
configure_header_external(m, block, allocated, freed, label, oomInfo, oomLabel) ==
    LET hl == HeaderLocation(m, block)
        hsz == m.cfg.HBlockInfo_.size_
    IN  IF ~Mapped(m.mem, hl, hsz) THEN Crash(m)
        ELSE IF ~allocated /\ ~freed
        THEN [m EXCEPT !.mem = MemSet(m.mem, hl, 0, hsz)]
        ELSE IF allocated
        THEN IF oomInfo THEN Throw(m, E_NO_MEMORY)
             ELSE LET info == NewInfoAddr(m.infos)
                      infos1 == NewInfo(m.infos, info)
                  IN  IF label # NULL /\ oomLabel
                      THEN Throw([m EXCEPT !.infos = infos1], E_NO_MEMORY)
                      ELSE [m EXCEPT
                              !.infos = [infos1 EXCEPT ![info] =
                                            [in_use |-> TRUE, label |-> label,
                                             alloc_num |-> m.stats.Allocations_]],
                              !.mem = WriteLE(m.mem, hl, info, PtrSize)]
        ELSE LET toDelete == ReadPtr(m.mem, hl)
             IN  IF toDelete \notin DOMAIN m.infos THEN Crash(m)
                 ELSE [m EXCEPT !.infos = DeleteInfo(m.infos, toDelete),
                                !.mem = MemSet(m.mem, hl, 0, hsz)]

\* ObjectAllocator::configure_header
configure_header(m, block, allocated, freed, label, oomInfo, oomLabel) ==
    CASE m.cfg.HBlockInfo_.type_ = hbBasic ->
            configure_header_basic(m, block, allocated)
      [] m.cfg.HBlockInfo_.type_ = hbExtended ->
            configure_header_extended(m, block, allocated, freed)
      [] m.cfg.HBlockInfo_.type_ = hbExternal ->
            configure_header_external(m, block, allocated, freed, label, oomInfo, oomLabel)
      [] OTHER -> m

(***************************************************************************)
(* Pages.                                                                  *)
(***************************************************************************)
\* mutant: the ceiling test with > for >=
PageCeilingReached_gt(cfg, st) ==
    st.PagesInUse_ # cfg.MaxPages_ /\ UGe32(st.PagesInUse_, cfg.MaxPages_)

\* the test of allocate_empty_page: no page may be added
PageCeilingReached(cfg, st) == UGe32(st.PagesInUse_, cfg.MaxPages_)

\* ObjectAllocator::allocate_empty_page.  oom: new char[] throws bad_alloc;
\* fill: the bytes the fresh storage happens to hold
allocate_empty_page(m, oom, fill) ==
    IF PageCeilingReached(m.cfg, m.stats) THEN Throw(m, E_NO_PAGES)
    ELSE IF oom THEN Throw(m, E_NO_MEMORY)
    ELSE LET size == m.stats.PageSize_
             newPage == PageAddr(m.nPages + 1, size)
             range == newPage..(newPage + size - 1)
             mem1 == [x \in DOMAIN m.mem \cup range |->
                         IF x \in range
                         THEN (IF m.cfg.DebugOn_ THEN UNALLOCATED_PATTERN ELSE fill)
                         ELSE m.mem[x]]
         IN  [m EXCEPT !.mem = WriteLE(mem1, newPage, m.PageList_, PtrSize),
                       !.PageList_ = newPage,
                       !.nPages = m.nPages + 1]

\* ObjectAllocator::make_block: the block's address and the memory after it
make_block(m, makePrev) ==
    LET newBlock == BlockAddr(m.cfg, m.stats, m.PageList_,
                              m.blockIter - (IF makePrev THEN 1 ELSE 0))
        pad == m.cfg.PadBytes_
    IN  [block |-> newBlock,
         mem |-> IF m.cfg.DebugOn_
                 THEN MemSet(MemSet(m.mem, newBlock - pad, PAD_PATTERN, pad),
                             newBlock + m.stats.ObjectSize_, PAD_PATTERN, pad)
                 ELSE m.mem]

\* ObjectAllocator::add_to_page
add_to_page(m) ==
    LET b == make_block(m, FALSE)
        block == b.block
        m1 == [m EXCEPT !.mem = b.mem]
        p == make_block(m1, TRUE)
        linked ==
            IF m.blockIter # 0
            THEN [m1 EXCEPT !.mem = WriteLE(p.mem, block, p.block, PtrSize),
                            !.FreeList_ = block]
            ELSE [m1 EXCEPT
                    !.mem = WriteLE(IF m.cfg.DebugOn_
                                    THEN MemSet(m1.mem, block - m.cfg.PadBytes_,
                                                PAD_PATTERN, m.cfg.PadBytes_)
                                    ELSE m1.mem,
                                    block, NULL, PtrSize),
                    !.FreeList_ = block]
        counted == [linked EXCEPT !.stats.FreeObjects_ = Inc32(m.stats.FreeObjects_),
                                  !.blockIter = m.blockIter + 1]
    IN  configure_header(counted, block, FALSE, FALSE, NULL, FALSE, FALSE)

RECURSIVE segment_loop(_, _)
\* the for loop of segment_page, from iteration i on
segment_loop(m, i) ==
    IF i >= m.cfg.ObjectsPerPage_ THEN m
    ELSE segment_loop(add_to_page(m), i + 1)

\* ObjectAllocator::segment_page
segment_page(m) ==
    LET m1 == segment_loop([m EXCEPT !.blockIter = 0], 0)
    IN  [m1 EXCEPT !.stats.PagesInUse_ = Inc32(m1.stats.PagesInUse_)]

\* ObjectAllocator::allocate_new_page
allocate_new_page(m, oom, fill) ==
    LET m1 == allocate_empty_page(m, oom, fill)
    IN  IF Ok(m1) THEN segment_page(m1) ELSE m1

(***************************************************************************)
(* Allocate.                                                               *)
(***************************************************************************)
\* the statistics of take_off_freelist
take_off_stats(st) ==
    [st EXCEPT !.FreeObjects_ = Dec32(st.FreeObjects_),
               !.ObjectsInUse_ = Inc32(st.ObjectsInUse_),
               !.MostObjects_ = Inc32(st.MostObjects_),
               !.Allocations_ = Inc32(st.Allocations_)]

\* ObjectAllocator::take_off_freelist
take_off_freelist(m, label, oomInfo, oomLabel) ==
    LET m1 == configure_header([m EXCEPT !.stats = take_off_stats(m.stats)],
                               m.FreeList_, TRUE, FALSE, label, oomInfo, oomLabel)
        block == m.FreeList_
    IN  IF ~Ok(m1) THEN m1
        ELSE IF ~Mapped(m1.mem, block, PtrSize) THEN Crash(m1)
        ELSE IF m1.cfg.DebugOn_ /\ ~Mapped(m1.mem, block, m1.stats.ObjectSize_)
        THEN Crash(m1)
        ELSE [m1 EXCEPT
                !.FreeList_ = ReadPtr(m1.mem, block),
                !.mem = IF m1.cfg.DebugOn_
                        THEN MemSet(m1.mem, block, ALLOCATED_PATTERN, m1.stats.ObjectSize_)
                        ELSE m1.mem,
                !.ret = block]

\* the address new char[ObjectSize_] gives in fallback mode
NewSysAddr(sysHeap) ==
    SysBase + PtrSize * (CHOOSE i \in 1..(Cardinality(sysHeap) + 1) :
                            /\ SysBase + PtrSize * i \notin sysHeap
                            /\ \A j \in 1..(i - 1) : SysBase + PtrSize * j \in sysHeap)

\* ObjectAllocator::Allocate
Allocate_(m, label, oomPage, fill, oomInfo, oomLabel, oomSys) ==
    IF m.cfg.UseCPPMemManager_ = FALSE
    THEN LET m1 == IF m.FreeList_ = NULL THEN allocate_new_page(m, oomPage, fill) ELSE m
         IN  IF Ok(m1) THEN take_off_freelist(m1, label, oomInfo, oomLabel) ELSE m1
    ELSE LET m1 == [m EXCEPT !.stats.Allocations_ = Inc32(m.stats.Allocations_),
                             !.stats.MostObjects_ = Inc32(m.stats.MostObjects_)]
         IN  IF oomSys THEN Throw(m1, E_NO_MEMORY)
             ELSE [m1 EXCEPT !.ret = NewSysAddr(m.sysHeap),
                             !.sysHeap = m.sysHeap \cup {NewSysAddr(m.sysHeap)}]

(***************************************************************************)
(* The checks of Free in debug mode.                                       *)
(***************************************************************************)
\* the byte at a; outside the pages it is whatever happens to be there
Peek(mem, a, garbage) == IF a \in DOMAIN mem THEN mem[a] ELSE garbage

\* mutant: only the left padding is compared
check_corruption_leftonly(m, toCheck, garbage) ==
    \E i \in 0..(m.cfg.PadBytes_ - 1) :
        Peek(m.mem, (toCheck - m.cfg.PadBytes_) + i, garbage) # PAD_PATTERN

\* ObjectAllocator::check_corruption
check_corruption(m, toCheck, garbage) ==
    LET firstPad == toCheck - m.cfg.PadBytes_
        secondPad == toCheck + m.stats.ObjectSize_
    IN  \E i \in 0..(m.cfg.PadBytes_ - 1) :
            \/ Peek(m.mem, firstPad + i, garbage) # PAD_PATTERN
            \/ Peek(m.mem, secondPad + i, garbage) # PAD_PATTERN

RECURSIVE multiple_free_loop(_, _, _, _)
\* the while loop of check_multiple_free: "found", "end", or "crash" when the
\* list leaves the pages or never ends
multiple_free_loop(mem, toCheck, freeList, fuel) ==
    IF freeList = NULL THEN "end"
    ELSE IF freeList = toCheck THEN "found"
    ELSE IF fuel = 0 \/ ~Mapped(mem, freeList, PtrSize) THEN "crash"
    ELSE multiple_free_loop(mem, toCheck, ReadPtr(mem, freeList), fuel - 1)

\* mutant: the scan advances before it compares, so it misses the head
check_multiple_free_skiphead(m, toCheck, freeList) ==
    IF freeList = NULL THEN "end"
    ELSE multiple_free_loop(m.mem, toCheck, ReadPtr(m.mem, freeList),
                            Cardinality(DOMAIN m.mem))

\* ObjectAllocator::check_multiple_free
check_multiple_free(m, toCheck, freeList) ==
    multiple_free_loop(m.mem, toCheck, freeList, Cardinality(DOMAIN m.mem))

\* ObjectAllocator::check_out_of_page
check_out_of_page(m, toCheck, pageList) ==
    \/ toCheck < pageList
    \/ toCheck > (pageList + calculate_page_size(m.cfg, m.stats)) - PtrSize

RECURSIVE Pow2Mod(_, _)
\* 2^e modulo s
Pow2Mod(e, s) == IF e = 0 THEN 1 % s ELSE (2 * Pow2Mod(e - 1, s)) % s

\* d % s where d (long long) is converted to the 64-bit unsigned type of s
UMod64(d, s) ==
    IF d >= 0 THEN d % s
    ELSE (Pow2Mod(64, s) + (s - ((0 - d) % s))) % s

\* ObjectAllocator::check_wrong_offset
check_wrong_offset(m, toCheck, pageList) ==
    LET locationDifference ==
            toCheck - (create_offset(pageList) + m.cfg.HBlockInfo_.size_ + m.cfg.PadBytes_)
    IN  UMod64(locationDifference, calculate_block_size(m.cfg, m.stats)) # 0

RECURSIVE bad_location_loop(_, _, _, _, _)
\* the while loop of check_bad_location: the final toThrow, or "crash"
bad_location_loop(m, toCheck, pageList, toThrow, fuel) ==
    IF pageList = NULL THEN (IF toThrow THEN "throw" ELSE "ok")
    ELSE IF fuel = 0 \/ ~Mapped(m.mem, pageList, PtrSize) THEN "crash"
    ELSE IF check_out_of_page(m, toCheck, pageList) \/ check_wrong_offset(m, toCheck, pageList)
    THEN bad_location_loop(m, toCheck, ReadPtr(m.mem, pageList), TRUE, fuel - 1)
    ELSE "ok"

\* ObjectAllocator::check_bad_location
check_bad_location(m, toCheck, pageList) ==
    bad_location_loop(m, toCheck, pageList, FALSE, Cardinality(DOMAIN m.mem))

\* mutant: the scan of the free list sits inside the test of PadBytes_, so
\* it runs only when padding is configured
check_freelist_padonly(m, node, garbage) ==
    IF m.cfg.PadBytes_ # 0 /\ check_corruption(m, node, garbage)
    THEN Throw(m, E_CORRUPTED_BLOCK)
    ELSE LET mf == IF m.cfg.PadBytes_ # 0
                   THEN check_multiple_free(m, node, m.FreeList_) ELSE "end"
             bl == check_bad_location(m, node, m.PageList_)
         IN  IF mf = "found" THEN Throw(m, E_MULTIPLE_FREE)
             ELSE IF mf = "crash" THEN Crash(m)
             ELSE IF bl = "throw" THEN Throw(m, E_BAD_BOUNDARY)
             ELSE IF bl = "crash" THEN Crash(m)
             ELSE m

\* ObjectAllocator::check_freelist
check_freelist(m, node, garbage) ==
    IF m.cfg.PadBytes_ # 0 /\ check_corruption(m, node, garbage)
    THEN Throw(m, E_CORRUPTED_BLOCK)
    ELSE LET mf == check_multiple_free(m, node, m.FreeList_)
             bl == check_bad_location(m, node, m.PageList_)
         IN  IF mf = "found" THEN Throw(m, E_MULTIPLE_FREE)
             ELSE IF mf = "crash" THEN Crash(m)
             ELSE IF bl = "throw" THEN Throw(m, E_BAD_BOUNDARY)
             ELSE IF bl = "crash" THEN Crash(m)
             ELSE m

(***************************************************************************)
(* Free.                                                                   *)
(***************************************************************************)
\* mutant: the free count is not raised
put_on_stats_nofree(st) ==
    [st EXCEPT !.Deallocations_ = Inc32(st.Deallocations_),
               !.ObjectsInUse_ = Dec32(st.ObjectsInUse_)]

\* the statistics of put_on_freelist
put_on_stats(st) ==
    [st EXCEPT !.Deallocations_ = Inc32(st.Deallocations_),
               !.ObjectsInUse_ = Dec32(st.ObjectsInUse_),
               !.FreeObjects_ = Inc32(st.FreeObjects_)]

\* mutant: the test of FreeList_ is inverted, so a block pushed on a list
\* that is not empty is linked to nothing
push_on_freelist_droplist(m, newFreeNode) ==
    IF ~Mapped(m.mem, newFreeNode, PtrSize)
       \/ (m.cfg.DebugOn_ /\ ~Mapped(m.mem, newFreeNode, m.stats.ObjectSize_))
    THEN Crash(m)
    ELSE LET mem1 == IF m.cfg.DebugOn_
                     THEN MemSet(m.mem, newFreeNode, FREED_PATTERN, m.stats.ObjectSize_)
                     ELSE m.mem
         IN  [m EXCEPT !.mem = WriteLE(mem1, newFreeNode, NULL, PtrSize),
                       !.FreeList_ = newFreeNode]

\* mutant: a block pushed on a list that is not empty is linked behind the
\* head instead of in front of it
push_on_freelist_behind(m, newFreeNode) ==
    IF ~Mapped(m.mem, newFreeNode, PtrSize)
       \/ (m.cfg.DebugOn_ /\ ~Mapped(m.mem, newFreeNode, m.stats.ObjectSize_))
    THEN Crash(m)
    ELSE LET mem1 == IF m.cfg.DebugOn_
                     THEN MemSet(m.mem, newFreeNode, FREED_PATTERN, m.stats.ObjectSize_)
                     ELSE m.mem
         IN  IF m.FreeList_ = NULL
             THEN [m EXCEPT !.mem = WriteLE(mem1, newFreeNode, NULL, PtrSize),
                            !.FreeList_ = newFreeNode]
             ELSE [m EXCEPT !.mem = WriteLE(WriteLE(mem1, newFreeNode,
                                                    ReadPtr(mem1, m.FreeList_), PtrSize),
                                            m.FreeList_, newFreeNode, PtrSize)]

\* the tail of put_on_freelist: the freed pattern and the push on FreeList_
push_on_freelist(m, newFreeNode) ==
    IF ~Mapped(m.mem, newFreeNode, PtrSize)
       \/ (m.cfg.DebugOn_ /\ ~Mapped(m.mem, newFreeNode, m.stats.ObjectSize_))
    THEN Crash(m)
    ELSE LET mem1 == IF m.cfg.DebugOn_
                     THEN MemSet(m.mem, newFreeNode, FREED_PATTERN, m.stats.ObjectSize_)
                     ELSE m.mem
         IN  [m EXCEPT !.mem = WriteLE(mem1, newFreeNode, m.FreeList_, PtrSize),
                       !.FreeList_ = newFreeNode]

\* mutant: the header is not rewritten to its freed state
put_on_freelist_keepheader(m, Object, garbage) ==
    LET m0 == [m EXCEPT !.stats = put_on_stats(m.stats)]
        m1 == IF m0.cfg.DebugOn_ THEN check_freelist(m0, Object, garbage) ELSE m0
    IN  IF ~Ok(m1) THEN m1 ELSE push_on_freelist(m1, Object)

\* ObjectAllocator::put_on_freelist
put_on_freelist(m, Object, garbage) ==
    LET m0 == [m EXCEPT !.stats = put_on_stats(m.stats)]
        m1 == IF m0.cfg.DebugOn_ THEN check_freelist(m0, Object, garbage) ELSE m0
        m2 == configure_header(m1, Object, FALSE, TRUE, NULL, FALSE, FALSE)
    IN  IF ~Ok(m1) THEN m1
        ELSE IF ~Ok(m2) THEN m2
        ELSE push_on_freelist(m2, Object)

\* ObjectAllocator::Free
Free_(m, Object, garbage) ==
    IF m.cfg.UseCPPMemManager_ = FALSE
    THEN put_on_freelist(m, Object, garbage)
    ELSE IF Object \notin m.sysHeap
    THEN Crash([m EXCEPT !.stats.Deallocations_ = Inc32(m.stats.Deallocations_)])
    ELSE [m EXCEPT !.stats.Deallocations_ = Inc32(m.stats.Deallocations_),
                   !.sysHeap = m.sysHeap \ {Object}]

(***************************************************************************)
(* The traversals DumpMemoryInUse and ValidatePages.  Each returns the     *)
(* calls of the callback fn it made, in order, as pairs << address, size >>;*)
(* the value the function returns is their number (numObjects).            *)
(***************************************************************************)
\* how a build tests a bool object whose byte is neither 0 nor 1 (reading it
\* is undefined): it compares the byte with 0, or it looks at its low bit
BoolReads == {"nonzero", "lowbit"}

ReadBool(byte, how) == IF how = "nonzero" THEN byte # 0 ELSE byte % 2 = 1

\* ObjectAllocator::check_leak_in_header.  For hbExternal the header bytes
\* themselves are taken for the MemBlockInfo, whose first member is in_use
check_leak_in_header(m, node, how) ==
    IF m.cfg.HBlockInfo_.type_ = hbExternal
    THEN ReadBool(m.mem[node], how)
    ELSE m.mem[node + (m.cfg.HBlockInfo_.size_ - 1)] # 0

RECURSIVE dump_blocks(_, _, _, _, _)
\* the for loop of DumpMemoryInUse, from iteration i on
dump_blocks(m, freeListCopy, i, how, fn) ==
    IF i >= m.cfg.ObjectsPerPage_ THEN fn
    ELSE dump_blocks(m, freeListCopy + calculate_block_size(m.cfg, m.stats), i + 1, how,
                     IF m.cfg.HBlockInfo_.size_ # 0
                        /\ check_leak_in_header(m, freeListCopy, how)
                     THEN Append(fn, << freeListCopy + m.cfg.HBlockInfo_.size_,
                                        m.stats.ObjectSize_ >>)
                     ELSE fn)

RECURSIVE dump_pages(_, _, _, _, _)
\* the while loop of DumpMemoryInUse
dump_pages(m, pageListCopy, how, fn, fuel) ==
    IF pageListCopy = NULL THEN [fn |-> fn, crashed |-> FALSE]
    ELSE IF fuel = 0 \/ ~Mapped(m.mem, pageListCopy, m.stats.PageSize_)
    THEN [fn |-> fn, crashed |-> TRUE]
    ELSE dump_pages(m, ReadPtr(m.mem, pageListCopy), how,
                    dump_blocks(m, create_offset(pageListCopy), 0, how, fn), fuel - 1)

\* ObjectAllocator::DumpMemoryInUse
DumpMemoryInUse_(m, how) == dump_pages(m, m.PageList_, how, << >>, m.nPages)

RECURSIVE validate_blocks(_, _, _, _)
\* the for loop of ValidatePages, from iteration i on
validate_blocks(m, freeListCopy, i, fn) ==
    IF i >= m.cfg.ObjectsPerPage_ THEN fn
    ELSE validate_blocks(m, freeListCopy + calculate_block_size(m.cfg, m.stats), i + 1,
                         IF m.cfg.HBlockInfo_.size_ # 0
                            /\ check_corruption(m, freeListCopy, PAD_PATTERN)
                         THEN Append(fn, << freeListCopy + m.cfg.HBlockInfo_.size_,
                                            m.stats.ObjectSize_ >>)
                         ELSE fn)

RECURSIVE validate_pages(_, _, _, _)
\* the while loop of ValidatePages
validate_pages(m, pageListCopy, fn, fuel) ==
    IF pageListCopy = NULL THEN [fn |-> fn, crashed |-> FALSE]
    ELSE IF fuel = 0 \/ ~Mapped(m.mem, pageListCopy, m.stats.PageSize_)
    THEN [fn |-> fn, crashed |-> TRUE]
    ELSE validate_pages(m, ReadPtr(m.mem, pageListCopy),
                        validate_blocks(m, create_offset(pageListCopy)
                                             + (m.cfg.HBlockInfo_.size_ + m.cfg.PadBytes_),
                                        0, fn),
                        fuel - 1)

\* ObjectAllocator::ValidatePages
ValidatePages_(m) == validate_pages(m, m.PageList_, << >>, m.nPages)

(***************************************************************************)
(* Destruction.                                                            *)
(***************************************************************************)
\* p is the start of a page obtained from new char[PageSize_] and not deleted
IsPage(m, p) ==
    /\ \E k \in 1..m.nPages : p = PageAddr(k, m.stats.PageSize_)
    /\ Mapped(m.mem, p, m.stats.PageSize_)

\* delete[] toDelete
DeletePage(m, toDelete) ==
    [x \in DOMAIN m.mem \ (toDelete..(toDelete + m.stats.PageSize_ - 1)) |-> m.mem[x]]

RECURSIVE Destructor(_, _)
\* ObjectAllocator::~ObjectAllocator: the while loop, with fuel iterations left
Destructor(m, fuel) ==
    IF m.PageList_ = NULL THEN m
    ELSE IF fuel = 0 \/ ~IsPage(m, m.PageList_) THEN Crash(m)
    ELSE Destructor([m EXCEPT !.PageList_ = ReadPtr(m.mem, m.PageList_),
                              !.mem = DeletePage(m, m.PageList_)],
                    fuel - 1)

(***************************************************************************)
(* Construction.                                                           *)
(***************************************************************************)
\* OAStats(): every counter starts at 0
NewStats(ObjectSize) ==
    [ObjectSize_ |-> ObjectSize, PageSize_ |-> 0, FreeObjects_ |-> 0,
     ObjectsInUse_ |-> 0, PagesInUse_ |-> 0, MostObjects_ |-> 0,
     Allocations_ |-> 0, Deallocations_ |-> 0]

\* ObjectAllocator::ObjectAllocator
Constructor(ObjectSize, config, oomPage, fill) ==
    LET st == NewStats(ObjectSize)
        m0 == [cfg |-> config,
               stats |-> [st EXCEPT !.PageSize_ = calculate_page_size(config, st)],
               PageList_ |-> NULL, FreeList_ |-> NULL, blockIter |-> 0,
               mem |-> << >>, infos |-> << >>, sysHeap |-> {}, nPages |-> 0,
               err |-> E_NONE, crashed |-> FALSE, ret |-> NULL]
    IN  IF config.UseCPPMemManager_ = FALSE
        THEN allocate_new_page(m0, oomPage, fill)
        ELSE m0

(***************************************************************************)
(* The configurations and inputs the model runs.                           *)
(***************************************************************************)
\* OAConfig::HeaderBlockInfo of each header type: the basic header is an
\* int and a flag, the extended one adds a short and `additional_` bytes,
\* the external one is a pointer
HeaderInfos ==
    { [type_ |-> hbNone, size_ |-> 0, additional_ |-> 0],
      [type_ |-> hbBasic, size_ |-> IntSize + 1, additional_ |-> 0],
      [type_ |-> hbExtended, size_ |-> 1 + ShortSize + IntSize + 1, additional_ |-> 1],
      [type_ |-> hbExternal, size_ |-> PtrSize, additional_ |-> 0] }

ObjectSizes == {PtrSize}

ObjectsPerPageChoices == {2}

PadChoices == {0, 2}

PoolConfigs ==
    [ObjectsPerPage_ : ObjectsPerPageChoices, MaxPages_ : 0..MaxPagesCfg,
     PadBytes_ : PadChoices, HBlockInfo_ : HeaderInfos,
     DebugOn_ : BOOLEAN, UseCPPMemManager_ : {FALSE}]

FallbackConfigs ==
    [ObjectsPerPage_ : ObjectsPerPageChoices, MaxPages_ : {MaxPagesCfg},
     PadBytes_ : {0}, HBlockInfo_ : {h \in HeaderInfos : h.type_ = hbNone},
     DebugOn_ : BOOLEAN, UseCPPMemManager_ : {TRUE}]

Configs == PoolConfigs \cup FallbackConfigs

\* what fresh storage that was never written may hold
FillBytes == {0, PAD_PATTERN}

\* the labels a client passes to Allocate: none, or the address of a string
Labels == {NULL, StackAddr + 64}

\* a byte a client writes when it overruns its object
ClientBytes == {65}

(***************************************************************************)
(* State.                                                                  *)
(***************************************************************************)
VARIABLES
    clientConfig,   \* ObjectAllocator::clientConfig
    stats,          \* ObjectAllocator::stats
    PageList_,      \* head of the page list
    FreeList_,      \* head of the free list
    blockIter,      \* ObjectAllocator::blockIter
    mem,            \* the bytes of the pages
    infos,          \* the live MemBlockInfo records, by address
    sysHeap,        \* the live objects of fallback mode
    nPages,         \* pages obtained from new char[] so far
    constructed,    \* the constructor returned normally
    crashed,        \* the program left defined behaviour
    calls,          \* client calls made
    lastOp,         \* the last call made
    lastArg,        \* its argument
    lastError,      \* the exception it threw, or E_NONE
    lastRet,        \* the pointer the last Allocate returned
    held,           \* pointers handed out and not successfully freed since
    returned,       \* every pointer Allocate ever returned
    debugAlways,    \* debug mode has been on since construction
    failures,       \* calls that threw an exception so far
    maxInUse,       \* the largest ObjectsInUse_ seen between calls
    callbacks,      \* the calls of fn the last traversal made: << address, size >>
    reportCount,    \* the value the last traversal returned
    destroyed,      \* the destructor has run
    overran,        \* the client wrote outside the storage of its objects
    timesAllocated  \* extended header: how often each block was handed out

vars == << clientConfig, stats, PageList_, FreeList_, blockIter, mem, infos,
           sysHeap, nPages, constructed, crashed, calls, lastOp, lastArg,
           lastError, lastRet, held, returned, debugAlways, failures, maxInUse,
           callbacks, reportCount, destroyed, overran, timesAllocated >>

\* the allocator as the record the operators work on
Machine ==
    [cfg |-> clientConfig, stats |-> stats, PageList_ |-> PageList_,
     FreeList_ |-> FreeList_, blockIter |-> blockIter, mem |-> mem,
     infos |-> infos, sysHeap |-> sysHeap, nPages |-> nPages,
     err |-> E_NONE, crashed |-> FALSE, ret |-> NULL]

\* the allocator's fields after a call that left it as r
Becomes(r) ==
    /\ clientConfig' = r.cfg
    /\ stats' = r.stats
    /\ PageList_' = r.PageList_
    /\ FreeList_' = r.FreeList_
    /\ blockIter' = r.blockIter
    /\ mem' = r.mem
    /\ infos' = r.infos
    /\ sysHeap' = r.sysHeap
    /\ nPages' = r.nPages
    /\ crashed' = r.crashed
    /\ lastError' = r.err

\* the larger of two unsigned values
UMax32(a, b) == IF UGe32(a, b) THEN a ELSE b

\* the object-storage addresses of the blocks of the pages obtained so far
BlocksIn(r) ==
    { BlockAddr(r.cfg, r.stats, PageAddr(k, r.stats.PageSize_), i) :
        k \in 1..r.nPages, i \in 0..(r.cfg.ObjectsPerPage_ - 1) }

\* timesAllocated after a call that left the allocator as r: the blocks of a
\* new page start at 0, the block handed out counts one more
TimesAfter(r, old) ==
    IF r.cfg.HBlockInfo_.type_ # hbExtended THEN << >>
    ELSE [b \in BlocksIn(r) |->
            (IF b \in DOMAIN old THEN old[b] ELSE 0)
                + (IF Ok(r) /\ b = r.ret THEN 1 ELSE 0)]

Init ==
    \E config \in Configs, size \in ObjectSizes, oomPage \in BOOLEAN, fill \in FillBytes :
        \E r \in {Constructor(size, config, oomPage, fill)} :
            /\ clientConfig = r.cfg
            /\ stats = r.stats
            /\ PageList_ = r.PageList_
            /\ FreeList_ = r.FreeList_
            /\ blockIter = r.blockIter
            /\ mem = r.mem
            /\ infos = r.infos
            /\ sysHeap = r.sysHeap
            /\ nPages = r.nPages
            /\ crashed = r.crashed
            /\ lastError = r.err
            /\ constructed = Ok(r)
            /\ calls = 0
            /\ lastOp = "ObjectAllocator"
            /\ lastArg = NULL
            /\ lastRet = NULL
            /\ held = {}
            /\ returned = {}
            /\ debugAlways = config.DebugOn_
            /\ failures = 0
            /\ maxInUse = 0
            /\ callbacks = << >>
            /\ reportCount = 0
            /\ destroyed = FALSE
            /\ overran = FALSE
            /\ timesAllocated = TimesAfter(r, << >>)

\* the allocator is alive
Alive == constructed /\ ~crashed /\ ~destroyed

Running == Alive /\ calls < MaxCalls

(***************************************************************************)
(* The client's calls.                                                     *)
(***************************************************************************)
\* the outcomes of new char[PageSize_] that matter to this Allocate: whether
\* it throws, and what the fresh bytes hold when debug mode does not fill them
PageOomChoices ==
    IF ~clientConfig.UseCPPMemManager_ /\ FreeList_ = NULL THEN BOOLEAN ELSE {FALSE}

PageFillChoices ==
    IF ~clientConfig.UseCPPMemManager_ /\ FreeList_ = NULL /\ ~clientConfig.DebugOn_
    THEN FillBytes ELSE {UNALLOCATED_PATTERN}

\* the effect of p = Allocate(label) on the model's variables; ooms: whether
\* operator new may throw std::bad_alloc
AllocateCall(ooms) ==
    /\ \E label \in (IF clientConfig.HBlockInfo_.type_ = hbExternal THEN Labels ELSE {NULL}),
          oomPage \in PageOomChoices \cap ooms,
          fill \in PageFillChoices,
          oomInfo \in (IF clientConfig.HBlockInfo_.type_ = hbExternal THEN ooms ELSE {FALSE}),
          oomSys \in (IF clientConfig.UseCPPMemManager_ THEN ooms ELSE {FALSE}) :
       \E oomLabel \in (IF label # NULL /\ ~oomInfo THEN ooms ELSE {FALSE}) :
       \E r \in {Allocate_(Machine, label, oomPage, fill, oomInfo, oomLabel, oomSys)} :
          /\ Becomes(r)
          /\ lastOp' = "Allocate"
          /\ lastArg' = label
          /\ lastRet' = IF Ok(r) THEN r.ret ELSE NULL
          /\ held' = IF Ok(r) THEN held \cup {r.ret} ELSE held
          /\ returned' = IF Ok(r) THEN returned \cup {r.ret} ELSE returned
          /\ failures' = IF r.err = E_NONE THEN failures ELSE failures + 1
          /\ maxInUse' = UMax32(maxInUse, r.stats.ObjectsInUse_)
          /\ timesAllocated' = TimesAfter(r, timesAllocated)
    /\ calls' = calls + 1
    /\ UNCHANGED << constructed, debugAlways, callbacks, reportCount, destroyed, overran >>

\* p = Allocate(label)
Allocate == Running /\ AllocateCall(BOOLEAN)

\* what the bytes around Object hold where they lie outside the pages
GarbageChoices(Object) ==
    IF Mapped(mem, Object - clientConfig.PadBytes_,
              stats.ObjectSize_ + 2 * clientConfig.PadBytes_)
    THEN {PAD_PATTERN} ELSE FillBytes

\* the effect of Free(Object) on the model's variables
FreeCall(Object) ==
    /\ \E garbage \in GarbageChoices(Object) :
       \E r \in {Free_(Machine, Object, garbage)} :
          /\ Becomes(r)
          /\ held' = IF Ok(r) THEN held \ {Object} ELSE held
          /\ failures' = IF r.err = E_NONE THEN failures ELSE failures + 1
          /\ maxInUse' = UMax32(maxInUse, r.stats.ObjectsInUse_)
    /\ lastOp' = "Free"
    /\ lastArg' = Object
    /\ calls' = calls + 1
    /\ UNCHANGED << constructed, debugAlways, lastRet, returned, callbacks,
                    reportCount, destroyed, overran, timesAllocated >>

\* Free(p) of a pointer Allocate returned: one the client holds or, where
\* debug mode checks it, one it has freed already
Free ==
    /\ Running
    /\ \E Object \in (IF clientConfig.DebugOn_ /\ ~clientConfig.UseCPPMemManager_
                      THEN returned ELSE held) :
          FreeCall(Object)

\* the addresses that are no block of the allocator: outside every page,
\* a page's own start, and addresses off the block grid
ForeignAddresses ==
    { StackAddr, PageList_, PageList_ + 1,
      BlockAddr(clientConfig, stats, PageList_, 0) - 1,
      BlockAddr(clientConfig, stats, PageList_, 1) + 1 }

\* Free(p) of a pointer that Allocate never returned, in debug mode
FreeForeign ==
    /\ Running
    /\ clientConfig.DebugOn_ /\ ~clientConfig.UseCPPMemManager_
    /\ \E Object \in ForeignAddresses \ returned : FreeCall(Object)

\* SetDebugState(State)
SetDebugState ==
    /\ Running
    /\ \E State \in BOOLEAN :
          /\ State # clientConfig.DebugOn_
          /\ clientConfig' = [clientConfig EXCEPT !.DebugOn_ = State]
          /\ debugAlways' = (debugAlways /\ State)
          /\ lastArg' = IF State THEN 1 ELSE 0
    /\ lastOp' = "SetDebugState"
    /\ lastError' = E_NONE
    /\ calls' = calls + 1
    /\ UNCHANGED << stats, PageList_, FreeList_, blockIter, mem, infos, sysHeap,
                    nPages, constructed, crashed, lastRet, held, returned, failures,
                    maxInUse, callbacks, reportCount, destroyed, overran,
                    timesAllocated >>

\* the client writes one byte just outside the object it holds: the byte
\* before it (the last of the left padding) or the byte after it (the first
\* of the right padding)
ClientOverrun ==
    /\ Running
    /\ ~clientConfig.UseCPPMemManager_
    /\ clientConfig.PadBytes_ > 0
    /\ \E p \in held, right \in BOOLEAN, b \in ClientBytes :
          LET a == IF right THEN p + stats.ObjectSize_ ELSE p - 1
          IN  /\ mem' = [mem EXCEPT ![a] = b]
              /\ lastArg' = a
    /\ lastOp' = "ClientOverrun"
    /\ lastError' = E_NONE
    /\ overran' = TRUE
    /\ calls' = calls + 1
    /\ UNCHANGED << clientConfig, stats, PageList_, FreeList_, blockIter, infos,
                    sysHeap, nPages, constructed, crashed, lastRet, held, returned,
                    debugAlways, failures, maxInUse, callbacks, reportCount,
                    destroyed, timesAllocated >>

Next == Allocate \/ Free \/ SetDebugState \/ ClientOverrun

Spec == Init /\ [][Next]_vars

\* n = DumpMemoryInUse(fn)
DumpMemoryInUse ==
    /\ Running
    /\ \E how \in (IF clientConfig.HBlockInfo_.type_ = hbExternal
                    THEN BoolReads ELSE {"nonzero"}) :
       \E r \in {DumpMemoryInUse_(Machine, how)} :
          /\ callbacks' = r.fn
          /\ reportCount' = Len(r.fn)
          /\ crashed' = r.crashed
    /\ lastOp' = "DumpMemoryInUse"
    /\ lastArg' = NULL
    /\ lastError' = E_NONE
    /\ calls' = calls + 1
    /\ UNCHANGED << clientConfig, stats, PageList_, FreeList_, blockIter, mem, infos,
                    sysHeap, nPages, constructed, lastRet, held, returned,
                    debugAlways, failures, maxInUse, destroyed, overran,
                    timesAllocated >>

\* n = ValidatePages(fn)
ValidatePages ==
    /\ Running
    /\ \E r \in {ValidatePages_(Machine)} :
          /\ callbacks' = r.fn
          /\ reportCount' = Len(r.fn)
          /\ crashed' = r.crashed
    /\ lastOp' = "ValidatePages"
    /\ lastArg' = NULL
    /\ lastError' = E_NONE
    /\ calls' = calls + 1
    /\ UNCHANGED << clientConfig, stats, PageList_, FreeList_, blockIter, mem, infos,
                    sysHeap, nPages, constructed, lastRet, held, returned,
                    debugAlways, failures, maxInUse, destroyed, overran,
                    timesAllocated >>

\* the allocator goes out of scope: ~ObjectAllocator()
Destroy ==
    /\ Alive
    /\ \E r \in {Destructor(Machine, nPages)} :
          /\ PageList_' = r.PageList_
          /\ mem' = r.mem
          /\ crashed' = r.crashed
    /\ destroyed' = TRUE
    /\ lastOp' = "~ObjectAllocator"
    /\ lastArg' = NULL
    /\ lastError' = E_NONE
    /\ UNCHANGED << clientConfig, stats, FreeList_, blockIter, infos, sysHeap, nPages,
                    constructed, calls, lastRet, held, returned, debugAlways,
                    failures, maxInUse, callbacks, reportCount, overran,
                    timesAllocated >>

\* the client that also inspects the allocator and destroys it in the end
NextAll ==
    \/ Allocate \/ Free \/ SetDebugState \/ ClientOverrun
    \/ DumpMemoryInUse \/ ValidatePages \/ Destroy

SpecAll == Init /\ [][NextAll]_vars

\* the client of the round trip: it allocates ObjectsPerPage_ objects, frees
\* them all in an order of its choice, allocates ObjectsPerPage_ objects again
\* and then one more; operator new does not fail meanwhile
RoundAllocate ==
    /\ Alive /\ ~clientConfig.UseCPPMemManager_
    /\ \/ calls < clientConfig.ObjectsPerPage_
       \/ /\ calls >= 2 * clientConfig.ObjectsPerPage_
          /\ calls <= 3 * clientConfig.ObjectsPerPage_
    /\ AllocateCall({FALSE})

RoundFree ==
    /\ Alive /\ ~clientConfig.UseCPPMemManager_
    /\ calls >= clientConfig.ObjectsPerPage_
    /\ calls < 2 * clientConfig.ObjectsPerPage_
    /\ \E Object \in held : FreeCall(Object)

NextRound == RoundAllocate \/ RoundFree

SpecRound == Init /\ [][NextRound]_vars

\* the same client, which also frees pointers it never obtained
NextForeign == Allocate \/ Free \/ FreeForeign \/ SetDebugState \/ ClientOverrun

SpecForeign == Init /\ [][NextForeign]_vars

(***************************************************************************)
(* What the claims speak of.                                               *)
(***************************************************************************)
\* the allocator was constructed in pool mode
Pool == constructed /\ ~clientConfig.UseCPPMemManager_

\* this step is a call of Free, of Allocate
FreeStep == lastOp' = "Free" /\ calls' = calls + 1

AllocateStep == lastOp' = "Allocate" /\ calls' = calls + 1

\* this step is a call of DumpMemoryInUse, of ValidatePages
DumpStep == lastOp' = "DumpMemoryInUse" /\ calls' = calls + 1

ValidateStep == lastOp' = "ValidatePages" /\ calls' = calls + 1

\* the header variant
HeaderType == clientConfig.HBlockInfo_.type_

RECURSIVE ListSeq(_, _, _)
\* the nodes of the list that starts at p and is linked by each node's
\* first pointer: the page list from PageList_, the free list from FreeList_
ListSeq(memory, p, fuel) ==
    IF p = NULL \/ fuel = 0 \/ ~Mapped(memory, p, PtrSize) THEN << >>
    ELSE << p >> \o ListSeq(memory, ReadPtr(memory, p), fuel - 1)

PageSeq == ListSeq(mem, PageList_, Cardinality(DOMAIN mem))

FreeSeq == ListSeq(mem, FreeList_, Cardinality(DOMAIN mem))

\* how often block b is linked on the free list
TimesFree(b) == Cardinality({i \in 1..Len(FreeSeq) : FreeSeq[i] = b})

\* the object-storage addresses of the blocks of the pages on the page list
Blocks ==
    { BlockAddr(clientConfig, stats, PageSeq[k], i) :
        k \in 1..Len(PageSeq), i \in 0..(clientConfig.ObjectsPerPage_ - 1) }

\* the in-use flag of block b's header
InUseFlag(b) ==
    LET hl == b - (clientConfig.PadBytes_ + clientConfig.HBlockInfo_.size_)
        t == clientConfig.HBlockInfo_.type_
    IN  CASE t = hbBasic -> mem[hl + IntSize] # 0
          [] t = hbExtended ->
                mem[hl + clientConfig.HBlockInfo_.additional_ + ShortSize + IntSize] # 0
          [] t = hbExternal ->
                /\ ReadPtr(mem, hl) \in DOMAIN infos
                /\ infos[ReadPtr(mem, hl)].in_use
          [] OTHER -> FALSE

\* the use counter of block b's extended header
UseCounter(b) ==
    ReadShort(mem, (b - (clientConfig.PadBytes_ + clientConfig.HBlockInfo_.size_))
                      + clientConfig.HBlockInfo_.additional_)

\* the bytes of the allocation number of block b's extended header
AllocNumBytes(b) ==
    LET headerInt == (b - (clientConfig.PadBytes_ + clientConfig.HBlockInfo_.size_))
                        + clientConfig.HBlockInfo_.additional_ + ShortSize
    IN  [i \in 0..(IntSize - 1) |-> mem[headerInt + i]]

\* some padding byte of block b differs from the pad pattern
PadDamaged(b) ==
    \E a \in (b - clientConfig.PadBytes_)..(b - 1)
             \cup (b + stats.ObjectSize_)..(b + stats.ObjectSize_ + clientConfig.PadBytes_ - 1) :
        mem[a] # PAD_PATTERN

\* the free list ends in nullptr and no block is linked on it twice
FreeListAcyclic ==
    /\ \A i, j \in 1..Len(FreeSeq) : i # j => FreeSeq[i] # FreeSeq[j]
    /\ \/ FreeList_ = NULL
       \/ /\ Len(FreeSeq) > 0
          /\ ReadPtr(mem, FreeSeq[Len(FreeSeq)]) = NULL

\* what a failed call has to leave alone
AllocatorUnchanged ==
    UNCHANGED << FreeList_, PageList_, stats, mem, infos >>

FreeErrors == {E_MULTIPLE_FREE, E_BAD_BOUNDARY, E_CORRUPTED_BLOCK}

(***************************************************************************)
(* C1: in pool mode with debug mode on, a Free that signals MultipleFree,  *)
(* BadBoundary or CorruptedBlock leaves the free list, every statistics    *)
(* counter and every block header as they were before the call.            *)
(* The code counts the call in stats before it validates: violated.        *)
(***************************************************************************)
C1_FailedFreeLeavesStateUnchanged ==
    [][(FreeStep /\ Pool /\ clientConfig.DebugOn_ /\ lastError' \in FreeErrors)
           => AllocatorUnchanged]_vars

(***************************************************************************)
(* C2: in pool mode, between calls,                                        *)
(* FreeObjects_ + ObjectsInUse_ == PagesInUse_ * ObjectsPerPage_ (in the   *)
(* unsigned arithmetic of the counters), after construction and after any  *)
(* Allocate and Free, also those that add a page or signal an error.       *)
(***************************************************************************)
C2_FreePlusInUseIsCapacity ==
    (Pool /\ ~crashed) =>
        Add32(stats.FreeObjects_, stats.ObjectsInUse_)
            = stats.PagesInUse_ * clientConfig.ObjectsPerPage_

\* a Free signalled an error with no block in use, which wraps ObjectsInUse_
\* to 0xFFFFFFFF and leaves FreeObjects_ one above the capacity
C2_Witness ==
    /\ Pool
    /\ lastOp = "Free"
    /\ lastError \in FreeErrors
    /\ stats.ObjectsInUse_ = -1
    /\ stats.FreeObjects_ = stats.PagesInUse_ * clientConfig.ObjectsPerPage_ + 1

(***************************************************************************)
(* C3: in pool mode with a header and debug mode on, after any Allocate    *)
(* calls and Free calls on addresses Allocate returned (repeated frees     *)
(* included), every block of every page of the page list is either on the  *)
(* free list exactly once with its in-use flag false, or handed out with   *)
(* its in-use flag true.                                                   *)
(***************************************************************************)
C3_BlocksFreeOrInUse ==
    (Pool /\ debugAlways /\ clientConfig.HBlockInfo_.type_ # hbNone) =>
        \A b \in Blocks :
            \/ TimesFree(b) = 1 /\ ~InUseFlag(b) /\ b \notin held
            \/ TimesFree(b) = 0 /\ InUseFlag(b) /\ b \in held

\* a repeated free was refused while another block is handed out
C3_Witness ==
    /\ Pool /\ debugAlways /\ clientConfig.HBlockInfo_.type_ # hbNone
    /\ lastOp = "Free" /\ lastError = E_MULTIPLE_FREE
    /\ held # {}
    /\ \E b \in Blocks : TimesFree(b) = 1

(***************************************************************************)
(* C4: in pool mode with debug mode on since construction, for any padding *)
(* width, once Free(p) succeeded and p was not handed out again, any       *)
(* further Free(p) signals MultipleFree.                                   *)
(***************************************************************************)
C4_RepeatedFreeSignalsMultipleFree ==
    [][(FreeStep /\ Pool /\ debugAlways /\ lastArg' \in returned \ held)
           => lastError' = E_MULTIPLE_FREE]_vars

\* a repeated free, with padding, after other calls in between
C4_Witness ==
    /\ Pool /\ debugAlways /\ clientConfig.PadBytes_ > 0
    /\ lastOp = "Free" /\ lastError = E_MULTIPLE_FREE
    /\ lastArg \in returned \ held
    /\ calls > 3

(***************************************************************************)
(* C5: in pool mode with debug mode on, Free of an address that is not the *)
(* object-storage address of a block of the allocator's pages signals      *)
(* BadBoundary, for every object size, header size and padding width.      *)
(* The code checks the padding around the address first and takes a        *)
(* page's start for a block when no header and padding are set: violated.  *)
(***************************************************************************)
C5_ForeignFreeSignalsBadBoundary ==
    [][(FreeStep /\ Pool /\ clientConfig.DebugOn_ /\ lastArg' \notin Blocks)
           => lastError' = E_BAD_BOUNDARY]_vars

(***************************************************************************)
(* C6: in pool mode with debug mode on and PadBytes_ > 0, Free of an       *)
(* in-use block with a padding byte that differs from the pad pattern      *)
(* signals CorruptedBlock and does not push the block on the free list;    *)
(* with PadBytes_ == 0 no Free signals CorruptedBlock.                     *)
(***************************************************************************)
C6_DamagedPaddingSignalsCorruptedBlock ==
    [][(FreeStep /\ Pool /\ clientConfig.DebugOn_) =>
          /\ (clientConfig.PadBytes_ > 0 /\ lastArg' \in held /\ PadDamaged(lastArg'))
                => /\ lastError' = E_CORRUPTED_BLOCK
                   /\ FreeList_' = FreeList_
                   /\ mem' = mem
                   /\ lastArg' \in held'
          /\ (lastArg' \in held /\ ~PadDamaged(lastArg'))
                => lastError' # E_CORRUPTED_BLOCK
          /\ clientConfig.PadBytes_ = 0 => lastError' # E_CORRUPTED_BLOCK]_vars

\* the client overran its object and the Free of it was refused
C6_Witness ==
    /\ Pool /\ clientConfig.DebugOn_ /\ debugAlways
    /\ lastOp = "Free" /\ lastError = E_CORRUPTED_BLOCK
    /\ lastArg \in held
    /\ mem[lastArg + stats.ObjectSize_] \in ClientBytes
    /\ TimesFree(lastArg) = 0

(***************************************************************************)
(* C7: in pool mode with MaxPages_ = M >= 1 and ObjectsPerPage_ = N,       *)
(* Allocate signals OutOfPages exactly when the free list is empty and     *)
(* PagesInUse_ == M; with no Free in between it does so exactly when M*N   *)
(* blocks are handed out; and PagesInUse_ <= MaxPages_ always.             *)
(***************************************************************************)
C7_OutOfPagesExactlyAtCeiling ==
    /\ [](Pool /\ clientConfig.MaxPages_ >= 1
            => stats.PagesInUse_ <= clientConfig.MaxPages_)
    /\ [][(AllocateStep /\ Pool /\ clientConfig.MaxPages_ >= 1) =>
             /\ (lastError' = E_NO_PAGES)
                   <=> (FreeList_ = NULL /\ stats.PagesInUse_ = clientConfig.MaxPages_)
             /\ stats.Deallocations_ = 0 =>
                   ((lastError' = E_NO_PAGES)
                      <=> Cardinality(held)
                            = clientConfig.MaxPages_ * clientConfig.ObjectsPerPage_)]_vars

\* every block of every allowed page is handed out and Allocate was refused
C7_Witness ==
    /\ Pool /\ clientConfig.MaxPages_ >= 1
    /\ lastOp = "Allocate" /\ lastError = E_NO_PAGES
    /\ Cardinality(held) = clientConfig.MaxPages_ * clientConfig.ObjectsPerPage_

(***************************************************************************)
(* C8: with MaxPages_ == 0 the page count is unbounded: in pool mode       *)
(* neither construction nor Allocate signals OutOfPages.                   *)
(* The code compares PagesInUse_ >= MaxPages_, which 0 >= 0 satisfies in   *)
(* the constructor: violated.                                              *)
(***************************************************************************)
C8_NoCeilingWhenMaxPagesIsZero ==
    (clientConfig.MaxPages_ = 0 /\ ~clientConfig.UseCPPMemManager_)
        => lastError # E_NO_PAGES

(***************************************************************************)
(* C9: an Allocate that signals OutOfPages or OutOfMemory leaves the free  *)
(* list, the page list, every statistics counter and every block header    *)
(* unchanged, in pool mode and in fallback mode.                           *)
(* The code counts the allocation before it can fail: violated.            *)
(***************************************************************************)
C9_FailedAllocateLeavesStateUnchanged ==
    [][(AllocateStep /\ constructed /\ lastError' \in {E_NO_PAGES, E_NO_MEMORY})
           => AllocatorUnchanged]_vars

(***************************************************************************)
(* C10: in pool mode MostObjects_ equals the largest value ObjectsInUse_   *)
(* has taken since construction (so it is 1 after Allocate, Free, Allocate *)
(* on one block).  Stated for runs in which no call failed.                *)
(* The code increments MostObjects_ on every Allocate: violated.           *)
(***************************************************************************)
C10_MostObjectsIsPeakInUse ==
    (Pool /\ failures = 0) => stats.MostObjects_ = maxInUse

(***************************************************************************)
(* C11: in pool mode with a basic, extended or external header, after any  *)
(* successful Allocate and Free calls DumpMemoryInUse calls fn once per    *)
(* block in use and returns that number, which equals ObjectsInUse_; it    *)
(* changes no allocator state.                                             *)
(* For the external header the code reads the in-use flag from the header  *)
(* bytes (the pointer) instead of the record they point to: violated.      *)
(***************************************************************************)
C11_DumpReportsBlocksInUse ==
    [][(DumpStep /\ Pool /\ HeaderType # hbNone /\ failures = 0) =>
          /\ reportCount' = Cardinality(held)
          /\ reportCount' = stats.ObjectsInUse_
          /\ Len(callbacks') = reportCount'
          /\ AllocatorUnchanged]_vars

(***************************************************************************)
(* C12: in pool mode with PadBytes_ > 0 and debug mode on, ValidatePages   *)
(* returns the number of blocks, over all pages, with a left or right      *)
(* padding byte that differs from the pad pattern and calls fn once for    *)
(* each of them, for every header variant, hbNone included; it changes no  *)
(* allocator state.                                                        *)
(* The code checks a block only when HBlockInfo_.size_ is not 0: violated. *)
(***************************************************************************)
C12_ValidateCountsDamagedBlocks ==
    [][(ValidateStep /\ Pool /\ clientConfig.PadBytes_ > 0 /\ clientConfig.DebugOn_) =>
          /\ reportCount' = Cardinality({b \in Blocks : PadDamaged(b)})
          /\ Len(callbacks') = reportCount'
          /\ AllocatorUnchanged]_vars

(***************************************************************************)
(* C13: for every block DumpMemoryInUse or ValidatePages reports, fn gets  *)
(* the block's object-storage address, the one Allocate returns for that   *)
(* block, and ObjectSize_; for every header size and padding width.        *)
(* DumpMemoryInUse passes the start of the left padding and ValidatePages  *)
(* an address HBlockInfo_.size_ bytes into the object: violated.           *)
(***************************************************************************)
C13_CallbackGetsObjectAddress ==
    [][((DumpStep \/ ValidateStep) /\ Pool) =>
          \A i \in 1..Len(callbacks') :
              /\ callbacks'[i][1] \in Blocks
              /\ callbacks'[i][2] = stats.ObjectSize_]_vars

(***************************************************************************)
(* C14: in pool mode, from a freshly constructed allocator, allocating     *)
(* ObjectsPerPage_ objects, freeing all of them in any order and           *)
(* allocating ObjectsPerPage_ objects again leaves PagesInUse_ at 1: the   *)
(* second round finds all ObjectsPerPage_ blocks on the free list, and a   *)
(* page is added only by an Allocate that finds the free list empty.       *)
(* Checked on the client of the round trip, SpecRound.                     *)
(***************************************************************************)
C14_RoundTripKeepsOnePage ==
    /\ [](Pool /\ calls = 3 * clientConfig.ObjectsPerPage_
            => /\ stats.PagesInUse_ = 1
               /\ Cardinality(held) = clientConfig.ObjectsPerPage_
               /\ lastError = E_NONE)
    /\ [](Pool /\ calls = 2 * clientConfig.ObjectsPerPage_
            => /\ Len(FreeSeq) = clientConfig.ObjectsPerPage_
               /\ held = {})
    /\ [][(Pool /\ stats.PagesInUse_' # stats.PagesInUse_)
             => AllocateStep /\ FreeList_ = NULL]_vars

\* the round trip is done, after frees in the order of the allocations, and
\* the one page holds every object
C14_Witness ==
    /\ Pool /\ calls = 3 * clientConfig.ObjectsPerPage_
    /\ clientConfig.ObjectsPerPage_ > 1
    /\ lastOp = "Allocate" /\ lastError = E_NONE
    /\ stats.Deallocations_ = clientConfig.ObjectsPerPage_
    /\ stats.PagesInUse_ = 1
    /\ held = Blocks
    /\ lastRet = BlockAddr(clientConfig, stats, PageList_, 0)

(***************************************************************************)
(* C15: after the allocator is destroyed every page it ever obtained is    *)
(* released and, with the external header, no MemBlockInfo record (with    *)
(* its label) remains allocated, also when blocks were in use at the time. *)
(* The destructor deletes the pages only; the records of the blocks in use *)
(* stay allocated: violated.                                               *)
(***************************************************************************)
C15_DestructorReleasesEverything ==
    destroyed => (DOMAIN mem = {} /\ DOMAIN infos = {})

(***************************************************************************)
(* C16: in pool mode with debug mode on since construction, whatever       *)
(* addresses Allocate returned are given to Free (also ones that are free  *)
(* already), Allocate never returns an address that is in use, and the     *)
(* free list stays acyclic and holds each block at most once.              *)
(***************************************************************************)
C16_AllocateNeverReturnsBlockInUse ==
    /\ []((Pool /\ debugAlways) =>
             /\ FreeListAcyclic
             /\ \A b \in Blocks : TimesFree(b) <= 1
             /\ \A b \in held : TimesFree(b) = 0)
    /\ [][(AllocateStep /\ Pool /\ debugAlways /\ lastError' = E_NONE)
             => lastRet' \notin held]_vars

\* Allocate handed out a block after a Free of a free block was refused
C16_Witness ==
    /\ Pool /\ debugAlways
    /\ lastOp = "Allocate" /\ lastError = E_NONE
    /\ HeaderType # hbExternal
    /\ stats.Deallocations_ > stats.Allocations_ - Cardinality(held)
    /\ lastRet \in held
    /\ FreeSeq # << >>

(***************************************************************************)
(* C17: in pool mode, between calls, FreeObjects_ is the number of blocks  *)
(* linked on the free list, ObjectsInUse_ the number of blocks handed out, *)
(* and Allocations_ - Deallocations_ that same number, after any Allocate  *)
(* and Free calls, those that signal an error included.                    *)
(* A Free that is refused has counted itself already (C1): violated.       *)
(***************************************************************************)
C17_StatisticsMatchTheLists ==
    Pool =>
        /\ stats.FreeObjects_ = Len(FreeSeq)
        /\ stats.ObjectsInUse_ = Cardinality(held)
        /\ stats.Allocations_ - stats.Deallocations_ = Cardinality(held)

(***************************************************************************)
(* C18: whenever debug mode is on, set at construction or later through    *)
(* SetDebugState(true) on pages made with debug mode off, every padding    *)
(* byte of every free block holds the pad pattern, provided the client     *)
(* wrote only inside its objects; so the Free of a block in use never      *)
(* signals CorruptedBlock in debug mode.                                   *)
(* Pages segmented with debug mode off have their padding never painted:   *)
(* violated.                                                               *)
(***************************************************************************)
C18_FreePaddingHoldsPadPattern ==
    /\ []((Pool /\ clientConfig.DebugOn_ /\ ~overran) =>
             \A b \in Blocks : TimesFree(b) > 0 => ~PadDamaged(b))
    /\ [][(FreeStep /\ Pool /\ clientConfig.DebugOn_ /\ ~overran /\ lastArg' \in held)
             => lastError' # E_CORRUPTED_BLOCK]_vars

(***************************************************************************)
(* C19: in pool mode Allocate returns the block at the head of the free    *)
(* list and a successful Free(p) pushes p at the head, so the first        *)
(* Allocate after a successful Free(p) returns p; a freshly segmented page *)
(* puts all ObjectsPerPage_ of its blocks on the free list, and a page is  *)
(* made only when every block of the pages before it is handed out.        *)
(***************************************************************************)
C19_FreeListIsLifo ==
    /\ []((Pool /\ calls = 0) =>
             /\ Len(FreeSeq) = clientConfig.ObjectsPerPage_
             /\ {FreeSeq[i] : i \in 1..Len(FreeSeq)} = Blocks)
    /\ [][(AllocateStep /\ Pool /\ lastError' = E_NONE) =>
             IF FreeList_ # NULL
             THEN /\ lastRet' = FreeList_
                  /\ FreeSeq' = Tail(FreeSeq)
                  /\ stats.PagesInUse_' = stats.PagesInUse_
             ELSE /\ held = Blocks
                  /\ stats.PagesInUse_' = stats.PagesInUse_ + 1
                  /\ Cardinality(Blocks' \ Blocks) = clientConfig.ObjectsPerPage_
                  /\ lastRet' \in Blocks' \ Blocks
                  /\ Len(FreeSeq') = clientConfig.ObjectsPerPage_ - 1
                  /\ {FreeSeq'[i] : i \in 1..Len(FreeSeq')}
                        = (Blocks' \ Blocks) \ {lastRet'}]_vars
    /\ [][(FreeStep /\ Pool /\ lastError' = E_NONE)
             => FreeSeq' = << lastArg' >> \o FreeSeq]_vars
    /\ [][(Pool /\ stats.PagesInUse_' # stats.PagesInUse_)
             => AllocateStep /\ FreeList_ = NULL /\ held = Blocks]_vars
    /\ [][(Pool /\ FreeList_ # NULL /\ ~destroyed'
              /\ (lastError' # E_NONE \/ ~(AllocateStep \/ FreeStep)))
             => FreeSeq' = FreeSeq]_vars

\* the block freed last was handed out again while the block that has been
\* free for longer still is
C19_Witness ==
    /\ Pool /\ failures = 0
    /\ lastOp = "Allocate" /\ lastError = E_NONE
    /\ stats.Allocations_ = 2 /\ stats.Deallocations_ = 1
    /\ lastRet = BlockAddr(clientConfig, stats, PageList_, 1)
    /\ FreeSeq = << BlockAddr(clientConfig, stats, PageList_, 0) >>

(***************************************************************************)
(* C20: with the extended header a block's use counter equals (as a 16-bit *)
(* value) the number of times the block was allocated since its page was   *)
(* segmented: segmentation sets it to 0, every Allocate of the block       *)
(* raises it by one, and Free leaves it as it is while it clears the       *)
(* allocation number and the in-use flag.                                  *)
(***************************************************************************)
C20_UseCounterCountsAllocations ==
    /\ []((Pool /\ HeaderType = hbExtended) =>
             \A b \in Blocks : UseCounter(b) = timesAllocated[b] % 65536)
    /\ [][(AllocateStep /\ Pool /\ HeaderType = hbExtended /\ lastError' = E_NONE) =>
             \A b \in Blocks' :
                 UseCounter(b)' =
                     (IF b \in Blocks THEN UseCounter(b) ELSE 0)
                         + (IF b = lastRet' THEN 1 ELSE 0)]_vars
    /\ [][(FreeStep /\ Pool /\ HeaderType = hbExtended /\ lastError' = E_NONE) =>
             \A b \in Blocks : UseCounter(b)' = UseCounter(b)]_vars
    /\ []((Pool /\ HeaderType = hbExtended /\ lastOp = "Free" /\ lastError = E_NONE) =>
             /\ AllocNumBytes(lastArg) = [i \in 0..(IntSize - 1) |-> 0]
             /\ ~InUseFlag(lastArg))

\* a block was allocated and freed twice: its counter is 2, its allocation
\* number and in-use flag are cleared
C20_Witness ==
    /\ Pool /\ HeaderType = hbExtended
    /\ lastOp = "Free" /\ lastError = E_NONE
    /\ timesAllocated[lastArg] = 2
    /\ UseCounter(lastArg) = 2
    /\ ~InUseFlag(lastArg)
    /\ held = {}

====
